---------------------------- MODULE Spec2Model ----------------------------
(***************************************************************************)
(* The WebSocket connection manager of the client (js/websocket.ts): the   *)
(* module-level socket, connected flag, stored user info, reconnect timer, *)
(* custom server URL and handler lists, the channels it creates and the    *)
(* callbacks the browser delivers on them; and the participant list of the *)
(* Discord activity client (fetchParticipants, updateParticipants).        *)
(*                                                                         *)
(* A string the code inspects (a URL, a host) is a sequence of one         *)
(* character strings, so that startsWith, endsWith, replace and split are  *)
(* computed as the code computes them.  An identifier the code only        *)
(* stores and copies (a user id, an instance id) is a TLA+ string.         *)
(***************************************************************************)
EXTENDS Integers, Sequences, FiniteSets, TLC

VARIABLES
    sockets,          \* every WebSocket object created so far, in order of creation
    socket,           \* `socket`: index into sockets, 0 for null
    connected,        \* `connected`
    userInfo,         \* `userInfo`: an identity, NoUser for null
    reconnectTimer,   \* `reconnectTimer`: the channel whose onclose armed the stored
                      \* timeout (a channel closes once, so it arms at most one), 0 for null
    customServerUrl,  \* `customServerUrl`: a character sequence, <<>> for null
    location,         \* window.location: [protocol, host]
    viteWsHost,       \* import.meta.env.VITE_WS_HOST, <<>> when not configured
    participants,     \* `participants` of the activity client: a JavaScript value
    published,        \* the events the last step published, in order
    transmitted,      \* the frames the last step handed to socket.send: [sock, frame]
    lastOp,           \* the last operation or callback: [op, sock, ret]; sock is the
                      \* channel of a callback, ret the value returned (for onclose,
                      \* whether the connection failed, so that onerror ran first; for
                      \* off, whether it removed a callback)
    lastCall,         \* the caller's last connect / joinInstance / disconnect
    epoch,            \* number of joinInstance calls made so far
    handlers,         \* onMessageHandlers .. onErrorHandlers: for each event name, the
                      \* callbacks subscribed, in subscription order
    invoked,          \* the handler calls the last step made, in order
    raised,           \* whether an exception left a callback of the last step uncaught
    received,         \* the frame the last step delivered to onmessage, NoFrame otherwise
    delivered,        \* the value the last step handed to fetchParticipants or
                      \* updateParticipants, NoResponse otherwise
    ablyState,        \* ably.connection.state of the relay
    connectionAttempts, \* `connectionAttempts` of the health probe
    checkTimer,       \* whether a setTimeout(checkConnectionState, 5000) is pending
    mockAblyFallback, \* window.__mockAblyFallback: Undefined until the probe assigns it
    observed,         \* the statuses the health checks made so far have read, in order
    refused,          \* the texts sendMessage has refused so far
    status            \* statusEl.className: what the status indicator shows

vars == <<sockets, socket, connected, userInfo, reconnectTimer, customServerUrl,
          location, viteWsHost, participants, published, transmitted, lastOp,
          lastCall, epoch, handlers, invoked, raised, received, delivered,
          ablyState, connectionAttempts, checkTimer, mockAblyFallback, observed,
          refused, status>>

\* the relay and its health probe
relayVars == <<ablyState, connectionAttempts, checkTimer, mockAblyFallback, observed>>

envVars == <<location, viteWsHost>>

-----------------------------------------------------------------------------
(* Bounds of the model *)

\* connect() is not called once this many channels have been created
MaxSockets == 3

\* on() is not called once this many callbacks are subscribed, all events together
MaxHandlers == 3

\* the longest participant list the Discord SDK hands over
MaxParticipants == 2

-----------------------------------------------------------------------------
(* Values *)

Null == "null"
Undefined == "undefined"

\* the absent identity: userInfo === null
NoUser == [userId |-> Null, username |-> Null, instanceId |-> Null, activityId |-> Null]

\* the identities the caller passes to connect (main.ts builds them from its params)
Users ==
    { [userId |-> "u1", username |-> "Alice", instanceId |-> "inst-1", activityId |-> Undefined] }

\* JavaScript values, as far as the participant code tells them apart: t is
\* "array", "object", or the name of a value that is neither ("null", "undefined",
\* "number", "string"); v holds the elements of an array
JsValue(t, v) == [t |-> t, v |-> v]

JsAbsent == JsValue("undefined", <<>>)

JsArray(s) == JsValue("array", s)

JsOther(t) == JsValue(t, <<>>)

\* a value handed to the participant code, with what reading its fields users,
\* participants and unknown_field gives: JsAbsent for a field it lacks
Payload(x, usersField, participantsField, unknownField) ==
    [t |-> x.t, v |-> x.v, users |-> usersField, participants |-> participantsField,
     unknown_field |-> unknownField]

\* an array, or a value that is neither array nor object: it has no such field
Bare(x) == Payload(x, JsAbsent, JsAbsent, JsAbsent)

JsObject(usersField, participantsField, unknownField) ==
    Payload(JsValue("object", <<>>), usersField, participantsField, unknownField)

\* the payload itself, as the value assigned from it
Value(x) == JsValue(x.t, x.v)

\* no call of fetchParticipants or updateParticipants in the step
NoResponse == Bare(JsOther("none"))

\* Array.isArray(x)
IsArray(x) == x.t = "array"

\* x in a condition: null and undefined are falsy; arrays and objects are truthy,
\* even empty ones; the numbers and strings of the model are non-zero, non-empty
Truthy(x) == x.t \notin {"null", "undefined"}

\* typeof x === 'object'
TypeofObject(x) == x.t \in {"array", "object", "null"}

-----------------------------------------------------------------------------
(* Character strings *)

S_https == <<"h","t","t","p","s">>
S_httpScheme == <<"h","t","t","p",":","/","/">>
S_httpsScheme == <<"h","t","t","p","s",":","/","/">>
S_slashWs == <<"/","w","s">>
S_slash == <<"/">>
S_ws == <<"w","s">>
S_wssColon == <<"w","s","s",":">>
S_wsColon == <<"w","s",":">>
S_slashSlash == <<"/","/">>
S_discordsays == <<"d","i","s","c","o","r","d","s","a","y","s",".","c","o","m">>
S_dotDiscordsays == <<".","d","i","s","c","o","r","d","s","a","y","s",".","c","o","m">>
S_proxyWs == <<"/",".","p","r","o","x","y","/","w","s">>

HostDiscord == <<"1","2","3","4",".","d","i","s","c","o","r","d","s","a","y","s",".","c","o","m">>

UrlBare == <<"c","u","s","t","o","m",".","e","x","a","m","p","l","e",".","c","o","m">>
UrlHttps == <<"h","t","t","p","s",":","/","/","c","u","s","t","o","m",".","e","x","a","m","p","l","e",".","c","o","m">>
HostLocal == <<"l","o","c","a","l","h","o","s","t",":","3","0","0","0">>
HostVite == <<"d","e","v",":","8","0","8","0">>
UrlHttp == <<"h","t","t","p",":","/","/","c","u","s","t","o","m",".","e","x","a","m","p","l","e",".","c","o","m">>
UrlHttpsWs == <<"h","t","t","p","s",":","/","/","c","u","s","t","o","m",".","e","x","a","m","p","l","e",".","c","o","m","/","w","s">>
UrlBareSlash == <<"c","u","s","t","o","m",".","e","x","a","m","p","l","e",".","c","o","m","/">>
UrlHttpsHost == <<"h","t","t","p","s","-","c","h","a","t",".","e","x","a","m","p","l","e",".","c","o","m">>
WsCustom == <<"w","s",":","/","/","c","u","s","t","o","m",".","e","x","a","m","p","l","e",".","c","o","m","/","w","s">>

\* s.startsWith(p)
StartsWith(s, p) == Len(s) >= Len(p) /\ SubSeq(s, 1, Len(p)) = p

\* s.endsWith(p)
EndsWith(s, p) == Len(s) >= Len(p) /\ SubSeq(s, Len(s) - Len(p) + 1, Len(s)) = p

\* s.includes(p)
Includes(s, p) ==
    \E k \in 1..(Len(s) - Len(p) + 1) : SubSeq(s, k, k + Len(p) - 1) = p

\* s.replace(/^https?:\/\//, '')
StripHttpScheme(s) ==
    IF StartsWith(s, S_httpsScheme) THEN SubSeq(s, Len(S_httpsScheme) + 1, Len(s))
    ELSE IF StartsWith(s, S_httpScheme) THEN SubSeq(s, Len(S_httpScheme) + 1, Len(s))
    ELSE s

\* s.split('.')[0]
FirstLabel(s) ==
    LET dots == {k \in 1..Len(s) : s[k] = "."}
    IN  IF dots = {} THEN s
        ELSE SubSeq(s, 1, (CHOOSE k \in dots : \A j \in dots : k <= j) - 1)

-----------------------------------------------------------------------------
(* The endpoint URL *)

\* the scheme chosen from window.location.protocol
PageProtocol(loc) == IF loc.protocol = "https:" THEN S_wssColon ELSE S_wsColon

\* getWebSocketUrl that gives the override the scheme of the page
getWebSocketUrl_PageScheme(custom, loc, vite) ==
    IF custom # <<>>
    THEN LET stripped == StripHttpScheme(custom)
             serverUrl == IF EndsWith(stripped, S_slashWs) THEN stripped
                          ELSE IF EndsWith(stripped, S_slash) THEN stripped \o S_ws
                          ELSE stripped \o S_slashWs
         IN  PageProtocol(loc) \o S_slashSlash \o serverUrl
    ELSE IF Includes(loc.host, S_discordsays)
    THEN PageProtocol(loc) \o S_slashSlash \o FirstLabel(loc.host) \o S_dotDiscordsays \o S_proxyWs
    ELSE LET host == IF vite # <<>> THEN vite ELSE loc.host
         IN  PageProtocol(loc) \o S_slashSlash \o host \o S_slashWs

\* getWebSocketUrl(), given customServerUrl, window.location and VITE_WS_HOST
getWebSocketUrl(custom, loc, vite) ==
    IF custom # <<>>
    THEN LET protocol == IF StartsWith(custom, S_https) THEN S_wssColon ELSE S_wsColon
             stripped == StripHttpScheme(custom)
             serverUrl == IF EndsWith(stripped, S_slashWs) THEN stripped
                          ELSE IF EndsWith(stripped, S_slash) THEN stripped \o S_ws
                          ELSE stripped \o S_slashWs
         IN  protocol \o S_slashSlash \o serverUrl
    ELSE IF Includes(loc.host, S_discordsays)
    THEN PageProtocol(loc) \o S_slashSlash \o FirstLabel(loc.host) \o S_dotDiscordsays \o S_proxyWs
    ELSE LET host == IF vite # <<>> THEN vite ELSE loc.host
         IN  PageProtocol(loc) \o S_slashSlash \o host \o S_slashWs

\* the URL the module resolves in the current state
CurrentUrl(m) == getWebSocketUrl(m.customServerUrl, location, viteWsHost)

\* getConnectionInfo()
getConnectionInfo(m) ==
    [connected |-> m.connected,
     userInfo |-> m.userInfo,
     url |-> CurrentUrl(m),
     isDiscordHost |-> Includes(location.host, S_discordsays),
     customServer |-> m.customServerUrl]

-----------------------------------------------------------------------------
(* The module state, as a record the functions of websocket.ts transform *)

M == [sockets |-> sockets, socket |-> socket, connected |-> connected,
      userInfo |-> userInfo, reconnectTimer |-> reconnectTimer,
      customServerUrl |-> customServerUrl, handlers |-> handlers,
      pub |-> <<>>, out |-> <<>>, calls |-> <<>>, threw |-> FALSE]

\* an event of one kind with the arguments its handlers are called with
Event(kind, arg) == [kind |-> kind, arg |-> arg]

\* the event names of on and off, each with its handler list
EventNames == {"message", "userJoined", "userLeft", "connect", "disconnect", "error"}

\* whether callback h throws when called with arg: "hx" is a callback that always
\* throws; the message handler of main.ts calls userId.substring, a TypeError when
\* the frame carried no userId
Raises(h, arg) ==
    \/ h = "hx"
    \/ h = "displayMessage" /\ arg[1] = Undefined

\* the call of handler h with the arguments of event ev
Call(h, ev) == [handler |-> h, kind |-> ev.kind, arg |-> ev.arg]

\* handlers.forEach(handler => handler(...)): the handlers of the kind are called
\* in list order; a handler that throws ends the forEach, and the exception
\* leaves it
Publish(m, kind, arg) ==
    LET hs == m.handlers[kind]
        throwing == {k \in 1..Len(hs) : Raises(hs[k], arg)}
        last == IF throwing = {} THEN Len(hs)
                ELSE CHOOSE k \in throwing : \A j \in throwing : k <= j
    IN  [m EXCEPT !.pub = Append(@, Event(kind, arg)),
                  !.calls = @ \o [k \in 1..last |-> Call(hs[k], Event(kind, arg))],
                  !.threw = throwing # {}]

\* clearTimeout(t): a pending timer is cancelled, a fired one is left alone
clearTimeout(m, t) ==
    IF t \in 1..Len(m.sockets) /\ m.sockets[t].timer = "pending"
    THEN [m EXCEPT !.sockets[t].timer = "cancelled"]
    ELSE m

\* JSON.stringify({type, ...data})
Frame(type, data) ==
    [type |-> type, userId |-> data.userId, username |-> data.username,
     instanceId |-> data.instanceId, activityId |-> data.activityId,
     message |-> data.message]

JoinData(u) ==
    [userId |-> u.userId, username |-> u.username, instanceId |-> u.instanceId,
     activityId |-> u.activityId, message |-> Undefined]

MessageData(text) ==
    [userId |-> Undefined, username |-> Undefined, instanceId |-> Undefined,
     activityId |-> Undefined, message |-> text]

\* socket.send(message) on channel i: the frame leaves on i; the channel
\* remembers the join frames it has carried
Transmit(m, i, frame) ==
    [m EXCEPT !.out = Append(@, [sock |-> i, frame |-> frame]),
              !.sockets[i].joined = IF frame.type = "join" THEN Append(@, frame) ELSE @]

\* send without the readyState test
send_NoStateCheck(m, type, data) ==
    IF m.socket = 0
    THEN [m |-> m, ret |-> FALSE]
    ELSE [m |-> Transmit(m, m.socket, Frame(type, data)), ret |-> TRUE]

\* send(type, data): the state after it and the value it returns
send(m, type, data) ==
    IF m.socket = 0 \/ m.sockets[m.socket].state # "OPEN"
    THEN [m |-> m, ret |-> FALSE]
    ELSE [m |-> Transmit(m, m.socket, Frame(type, data)), ret |-> TRUE]

\* connect(user); origin tells who called it: [armedBy, epoch], armedBy being the
\* channel whose reconnection timer made the call, 0 for the application
connect(m, user, origin) ==
    LET m1 == [m EXCEPT !.userInfo = user]
        m2 == IF m1.reconnectTimer # 0
              THEN [clearTimeout(m1, m1.reconnectTimer) EXCEPT !.reconnectTimer = 0]
              ELSE m1
        ws == [state |-> "CONNECTING", url |-> CurrentUrl(m2),
               armedBy |-> origin.armedBy, epoch |-> origin.epoch, joined |-> <<>>,
               timer |-> "none"]
    IN  [m2 EXCEPT !.sockets = Append(@, ws), !.socket = Len(m2.sockets) + 1]

\* socket.close(): readyState CLOSING.  Nothing is sent on the channel from here
\* on and nothing reads its address, so the model forgets both.
Closing(ws) == [ws EXCEPT !.state = "CLOSING", !.url = <<>>, !.joined = <<>>]

\* disconnect that notifies the disconnect handlers
disconnect_Publishes(m) ==
    LET m1 == IF m.socket # 0 /\ m.sockets[m.socket].state \in {"OPEN", "CONNECTING"}
              THEN [m EXCEPT !.sockets[m.socket] = Closing(@)]
              ELSE m
        m2 == IF m1.reconnectTimer # 0
              THEN [clearTimeout(m1, m1.reconnectTimer) EXCEPT !.reconnectTimer = 0]
              ELSE m1
    IN  Publish([m2 EXCEPT !.socket = 0, !.connected = FALSE], "disconnect", <<>>)

\* disconnect()
disconnect(m) ==
    LET m1 == IF m.socket # 0 /\ m.sockets[m.socket].state \in {"OPEN", "CONNECTING"}
              THEN [m EXCEPT !.sockets[m.socket] = Closing(@)]
              ELSE m
        m2 == IF m1.reconnectTimer # 0
              THEN [clearTimeout(m1, m1.reconnectTimer) EXCEPT !.reconnectTimer = 0]
              ELSE m1
    IN  [m2 EXCEPT !.socket = 0, !.connected = FALSE]

\* onopen that also sends a message held back while the connection was down
onopen_Flushes(m, i) ==
    LET m1 == [m EXCEPT !.connected = TRUE]
        m2 == IF m1.userInfo # NoUser
              THEN send(m1, "join", JoinData(m1.userInfo)).m
              ELSE m1
        m3 == send(m2, "message", MessageData("hello")).m
    IN  Publish(m3, "connect", <<>>)

\* socket.onopen of channel i
onopen(m, i) ==
    LET m1 == [m EXCEPT !.connected = TRUE]
        m2 == IF m1.userInfo # NoUser
              THEN send(m1, "join", JoinData(m1.userInfo)).m
              ELSE m1
    IN  Publish(m2, "connect", <<>>)

\* onclose that schedules no reconnection
onclose_NoReconnect(m, i) ==
    Publish([m EXCEPT !.connected = FALSE, !.socket = 0], "disconnect", <<>>)

\* socket.onclose of channel i
onclose(m, i) ==
    LET m1 == [m EXCEPT !.connected = FALSE, !.socket = 0]
        m2 == Publish(m1, "disconnect", <<>>)
    IN  IF m2.threw THEN m2
        ELSE IF m2.userInfo # NoUser
        THEN [m2 EXCEPT !.sockets[i].timer = "pending", !.reconnectTimer = i]
        ELSE m2

\* socket.onerror of channel i
onerror(m, i) ==
    LET errorMessage == IF Includes(CurrentUrl(m), S_discordsays)
                        THEN "Connection error. Discord host may be blocking WebSocket connections. Try refreshing the page or checking your network connection."
                        ELSE "Connection error Try refreshing the page or checking your network connection."
    IN  Publish(m, "error", <<errorMessage>>)

\* a timer callback that gives up instead of connecting
reconnect_GivesUp(m, t) == m

\* the callback onclose hands to window.setTimeout, for timer t
reconnect(m, t) ==
    IF m.userInfo # NoUser
    THEN connect(m, m.userInfo, [armedBy |-> t, epoch |-> epoch])
    ELSE m

\* an inbound frame, as JSON.parse sees event.data: json tells whether the text
\* is not JSON ("invalid"), the JSON null ("null") or a JSON object whose fields
\* follow; a field the object lacks is Undefined
RawFrame(json, type, userId, message) ==
    [json |-> json, type |-> type, userId |-> userId, message |-> message]

NoFrame == RawFrame("none", Undefined, Undefined, Undefined)

\* a switch whose default case reports the frame to the error handlers
dispatch_DefaultError(m, raw) ==
    IF raw.json # "object" THEN [m EXCEPT !.threw = TRUE]
    ELSE CASE raw.type = "message" -> Publish(m, "message", <<raw.userId, raw.message>>)
           [] raw.type = "user_joined" -> Publish(m, "userJoined", <<raw.userId>>)
           [] raw.type = "user_left" -> Publish(m, "userLeft", <<raw.userId>>)
           [] OTHER -> Publish(m, "error", <<raw.message>>)

\* a switch whose error case also gives the connection up
dispatch_ErrorDisconnects(m, raw) ==
    IF raw.json # "object" THEN [m EXCEPT !.threw = TRUE]
    ELSE CASE raw.type = "message" -> Publish(m, "message", <<raw.userId, raw.message>>)
           [] raw.type = "user_joined" -> Publish(m, "userJoined", <<raw.userId>>)
           [] raw.type = "user_left" -> Publish(m, "userLeft", <<raw.userId>>)
           [] raw.type = "error" ->
                  [Publish(m, "error", <<raw.message>>) EXCEPT !.connected = FALSE]
           [] OTHER -> m

\* the try block of socket.onmessage: JSON.parse throws a SyntaxError on text
\* that is not JSON, data.type throws a TypeError on null, and the switch has no
\* default case
dispatch(m, raw) ==
    IF raw.json # "object" THEN [m EXCEPT !.threw = TRUE]
    ELSE CASE raw.type = "message" -> Publish(m, "message", <<raw.userId, raw.message>>)
           [] raw.type = "user_joined" -> Publish(m, "userJoined", <<raw.userId>>)
           [] raw.type = "user_left" -> Publish(m, "userLeft", <<raw.userId>>)
           [] raw.type = "error" -> Publish(m, "error", <<raw.message>>)
           [] OTHER -> m

\* onmessage without the catch
onmessage_NoCatch(m, i, raw) == dispatch(m, raw)

\* socket.onmessage of channel i: whatever the try block throws is caught and logged
onmessage(m, i, raw) == [dispatch(m, raw) EXCEPT !.threw = FALSE]

\* on(event, callback)
on(m, event, callback) ==
    IF event \in EventNames
    THEN [m EXCEPT !.handlers[event] = Append(@, callback)]
    ELSE m

\* off that removes the callback from the list of every event
off_EveryList(m, event, callback) ==
    [m EXCEPT !.handlers =
        [e \in EventNames |-> SelectSeq(m.handlers[e], LAMBDA handler : handler # callback)]]

\* off(event, callback)
off(m, event, callback) ==
    IF event \in EventNames
    THEN [m EXCEPT !.handlers[event] = SelectSeq(@, LAMBDA handler : handler # callback)]
    ELSE m

-----------------------------------------------------------------------------
(* Initial state *)

Texts == {"hello"}

\* what the join dialog hands to joinInstance: another instance, on another server
JoinRequests ==
    { [instanceId |-> "inst-2", activityId |-> "act-9", serverUrl |-> UrlBare] }

Op(op, sock, ret) == [op |-> op, sock |-> sock, ret |-> ret]

\* the handlers setupWebSocketHandlers subscribes, one to each event
MainHandlers ==
    [message |-> <<"displayMessage">>, userJoined |-> <<"displayUserJoined">>,
     userLeft |-> <<"displayUserLeft">>, connect |-> <<"statusConnected">>,
     disconnect |-> <<"statusDisconnected">>, error |-> <<"statusError">>]

\* the relay once the page has loaded: Ably is being initialised, no health check
\* has run and the first one is scheduled
InitRelay ==
    /\ ablyState = "initialized"
    /\ connectionAttempts = 0
    /\ checkTimer = TRUE
    /\ mockAblyFallback = Undefined
    /\ observed = <<>>

Init ==
    /\ sockets = <<>>
    /\ socket = 0
    /\ connected = FALSE
    /\ userInfo = NoUser
    /\ reconnectTimer = 0
    /\ customServerUrl = <<>>
    /\ location = [protocol |-> "https:", host |-> HostDiscord]
    /\ viteWsHost = <<>>
    /\ participants = JsArray(<<>>)
    /\ published = <<>>
    /\ transmitted = <<>>
    /\ lastOp = Op("init", 0, "none")
    /\ lastCall = "none"
    /\ epoch = 0
    /\ handlers = MainHandlers
    /\ invoked = <<>>
    /\ raised = FALSE
    /\ received = NoFrame
    /\ delivered = NoResponse
    /\ InitRelay
    /\ refused = {}
    /\ status = "connecting"

\* the module state after a function of websocket.ts has run
Install(m) ==
    /\ sockets' = m.sockets
    /\ socket' = m.socket
    /\ connected' = m.connected
    /\ userInfo' = m.userInfo
    /\ reconnectTimer' = m.reconnectTimer
    /\ customServerUrl' = m.customServerUrl
    /\ handlers' = m.handlers
    /\ published' = m.pub
    /\ transmitted' = m.out
    /\ invoked' = m.calls
    /\ raised' = m.threw

Bool(b) == IF b THEN "true" ELSE "false"

\* ui.updateStatus as the handlers of main.ts call it: the status a handler
\* sets, "" for a handler that sets none
StatusOf(handler) ==
    CASE handler = "statusConnected" -> "connected"
      [] handler \in {"statusDisconnected", "statusError"} -> "disconnected"
      [] OTHER -> ""

\* the indicator after the handler calls of a step, made in this order
RECURSIVE StatusAfter(_, _)
StatusAfter(current, calls) ==
    IF calls = <<>> THEN current
    ELSE StatusAfter(IF StatusOf(Head(calls).handler) # ""
                     THEN StatusOf(Head(calls).handler) ELSE current,
                     Tail(calls))

-----------------------------------------------------------------------------
(* The caller's operations *)

\* connect(user), called by the application
Connect(user) ==
    /\ Len(sockets) < MaxSockets
    /\ Install(connect(M, user, [armedBy |-> 0, epoch |-> epoch]))
    /\ lastOp' = Op("connect", 0, "none")
    /\ lastCall' = "connect"
    /\ received' = NoFrame
    /\ delivered' = NoResponse
    /\ UNCHANGED <<envVars, relayVars, refused, participants, epoch>>
    /\ status' = StatusAfter(status, invoked')

\* joinInstance that keeps the override installed when it is given none
joinInstance_KeepsOverride(m, instanceId, activityId, userId, username, serverUrl) ==
    LET m1 == disconnect(m)
        m2 == IF serverUrl # <<>> THEN [m1 EXCEPT !.customServerUrl = serverUrl] ELSE m1
        newUserInfo == [userId |-> userId, username |-> username,
                        instanceId |-> instanceId,
                        activityId |-> IF activityId \notin {Undefined, ""}
                                       THEN activityId ELSE Undefined]
    IN  connect(m2, newUserInfo, [armedBy |-> 0, epoch |-> epoch + 1])

\* joinInstance(instanceId, activityId, userId, username, serverUrl)
joinInstance(m, instanceId, activityId, userId, username, serverUrl) ==
    LET m1 == disconnect(m)
        m2 == [m1 EXCEPT !.customServerUrl = serverUrl]
        newUserInfo == [userId |-> userId, username |-> username,
                        instanceId |-> instanceId,
                        activityId |-> IF activityId \notin {Undefined, ""}
                                       THEN activityId ELSE Undefined]
    IN  connect(m2, newUserInfo, [armedBy |-> 0, epoch |-> epoch + 1])

JoinInstance(instanceId, activityId, userId, username, serverUrl) ==
    /\ Len(sockets) < MaxSockets
    /\ Install(joinInstance(M, instanceId, activityId, userId, username, serverUrl))
    /\ lastOp' = Op("joinInstance", 0, "true")
    /\ lastCall' = "joinInstance"
    /\ epoch' = epoch + 1
    /\ received' = NoFrame
    /\ delivered' = NoResponse
    /\ UNCHANGED <<envVars, relayVars, refused, participants>>
    /\ status' = StatusAfter(status, invoked')

\* disconnect(), called by the application
Disconnect ==
    /\ Install(disconnect(M))
    /\ lastOp' = Op("disconnect", 0, "none")
    /\ lastCall' = "disconnect"
    /\ received' = NoFrame
    /\ delivered' = NoResponse
    /\ UNCHANGED <<envVars, relayVars, refused, participants, epoch>>
    /\ status' = StatusAfter(status, invoked')

\* sendMessage(message), which is send('message', { message })
sendMessage(m, message) == send(m, "message", MessageData(message))

SendMessage(message) ==
    /\ LET r == sendMessage(M, message)
       IN  /\ Install(r.m)
           /\ lastOp' = Op("sendMessage", 0, Bool(r.ret))
           /\ refused' = IF r.ret THEN refused ELSE refused \cup {message}
    /\ received' = NoFrame
    /\ delivered' = NoResponse
    /\ UNCHANGED <<envVars, relayVars, participants, lastCall, epoch>>
    /\ status' = StatusAfter(status, invoked')

-----------------------------------------------------------------------------
(* The browser's callbacks *)

Channels == 1..Len(sockets)

\* the connection of channel i is established: readyState OPEN, then onopen
SocketOpen(i) ==
    /\ sockets[i].state = "CONNECTING"
    /\ Install(onopen([M EXCEPT !.sockets[i].state = "OPEN"], i))
    /\ lastOp' = Op("onopen", i, "none")
    /\ received' = NoFrame
    /\ delivered' = NoResponse
    /\ UNCHANGED <<envVars, relayVars, refused, participants, lastCall, epoch>>
    /\ status' = StatusAfter(status, invoked')

\* A closed WebSocket is garbage to the program: nothing reads its address or
\* sends on it again.  The model keeps of it its state, its timer and its epoch.
Closed(ws) == [ws EXCEPT !.state = "CLOSED", !.url = <<>>, !.joined = <<>>, !.armedBy = 0]

\* a browser that reports the failure of a connection to onerror alone
SocketClosed_ErrorOnly(i, failed) ==
    /\ sockets[i].state \in {"CONNECTING", "OPEN", "CLOSING"}
    /\ LET m0 == [M EXCEPT !.sockets[i] = Closed(@)]
       IN  Install(IF failed THEN onerror(m0, i) ELSE onclose(m0, i))
    /\ lastOp' = Op("onclose", i, Bool(failed))
    /\ received' = NoFrame
    /\ delivered' = NoResponse
    /\ UNCHANGED <<envVars, relayVars, refused, participants, lastCall, epoch>>
    /\ status' = StatusAfter(status, invoked')

\* the connection of channel i is closed: readyState CLOSED, then onerror when
\* the connection failed, then onclose, all in one task; an exception that
\* leaves onerror is reported and does not keep onclose from running
SocketClosed(i, failed) ==
    /\ sockets[i].state \in {"CONNECTING", "OPEN", "CLOSING"}
    /\ LET m0 == [M EXCEPT !.sockets[i] = Closed(@)]
           m1 == IF failed THEN onerror(m0, i) ELSE m0
           m2 == onclose([m1 EXCEPT !.threw = FALSE], i)
       IN  Install([m2 EXCEPT !.threw = m1.threw \/ m2.threw])
    /\ lastOp' = Op("onclose", i, Bool(failed))
    /\ received' = NoFrame
    /\ delivered' = NoResponse
    /\ UNCHANGED <<envVars, relayVars, refused, participants, lastCall, epoch>>
    /\ status' = StatusAfter(status, invoked')

\* the reconnection timer t fires
TimerFire(t) ==
    /\ sockets[t].timer = "pending"
    /\ userInfo # NoUser => Len(sockets) < MaxSockets
    /\ Install(reconnect([M EXCEPT !.sockets[t].timer = "fired"], t))
    /\ lastOp' = Op("timer", t, "none")
    /\ received' = NoFrame
    /\ delivered' = NoResponse
    /\ UNCHANGED <<envVars, relayVars, refused, participants, lastCall, epoch>>
    /\ status' = StatusAfter(status, invoked')

\* a frame arrives on channel i, which is open: onmessage
SocketMessage(i, raw) ==
    /\ sockets[i].state = "OPEN"
    /\ Install(onmessage(M, i, raw))
    /\ lastOp' = Op("onmessage", i, "none")
    /\ received' = raw
    /\ delivered' = NoResponse
    /\ UNCHANGED <<envVars, relayVars, refused, participants, lastCall, epoch>>
    /\ status' = StatusAfter(status, invoked')

-----------------------------------------------------------------------------
(* The specification *)

Next ==
    \/ \E u \in Users : Connect(u)
    \/ \E r \in JoinRequests :
          JoinInstance(r.instanceId, r.activityId, "u1", "Alice", r.serverUrl)
    \/ Disconnect
    \/ \E text \in Texts : SendMessage(text)
    \/ \E i \in Channels : SocketOpen(i)
    \/ \E i \in Channels, failed \in BOOLEAN : SocketClosed(i, failed)
    \/ \E t \in Channels : TimerFire(t)

Spec == Init /\ [][Next]_vars

-----------------------------------------------------------------------------
(* The client that never calls disconnect(): it connects, its channels open
   and close, and every reconnection timer that stays armed fires in the end *)

NextReconnect ==
    \/ \E u \in Users : Connect(u)
    \/ \E i \in Channels : SocketOpen(i)
    \/ \E i \in Channels, failed \in BOOLEAN : SocketClosed(i, failed)
    \/ \E t \in Channels : TimerFire(t)

\* window.setTimeout runs the callback of a timer that is not cleared
TimersFire == \A t \in 1..MaxSockets : WF_vars(t \in Channels /\ TimerFire(t))

SpecReconnect == Init /\ [][NextReconnect]_vars /\ TimersFire


FirstJoins ==
    [instanceId : {"inst-1", "inst-2"}, activityId : {Undefined, "act-1"}, serverUrl : {<<>>}]

SecondJoins ==
    [instanceId : {"inst-1", "inst-2"}, activityId : {"act-9"}, serverUrl : {UrlBare, UrlHttps}]

InitJoinTwice ==
    /\ sockets = <<>>
    /\ socket = 0
    /\ connected = FALSE
    /\ userInfo = NoUser
    /\ reconnectTimer = 0
    /\ customServerUrl = <<>>
    /\ location \in [protocol : {"http:", "https:"}, host : {HostLocal, HostDiscord}]
    /\ viteWsHost = <<>>
    /\ participants = JsArray(<<>>)
    /\ published = <<>>
    /\ transmitted = <<>>
    /\ lastOp = Op("init", 0, "none")
    /\ lastCall = "none"
    /\ epoch = 0
    /\ handlers = MainHandlers
    /\ invoked = <<>>
    /\ raised = FALSE
    /\ received = NoFrame
    /\ delivered = NoResponse
    /\ InitRelay
    /\ refused = {}
    /\ status = "connecting"

\* the first call, made without an override
JoinFirst ==
    /\ epoch = 0
    /\ \E r \in FirstJoins :
          JoinInstance(r.instanceId, r.activityId, "u1", "Alice", r.serverUrl)

\* the second call, made before any callback of the first is delivered
JoinSecond ==
    /\ epoch = 1
    /\ \E r \in SecondJoins :
          JoinInstance(r.instanceId, r.activityId, "u1", "Alice", r.serverUrl)

\* a connecting channel opens
DeliverOpen ==
    /\ epoch = 2
    /\ \E i \in Channels : SocketOpen(i)

\* the close event of a channel that close() was called on
DeliverClose ==
    /\ epoch = 2
    /\ \E i \in Channels, failed \in BOOLEAN :
          sockets[i].state = "CLOSING" /\ SocketClosed(i, failed)

\* a pending reconnection timer fires
DeliverTimer ==
    /\ epoch = 2
    /\ \E t \in Channels : TimerFire(t)

NextJoinTwice == JoinFirst \/ JoinSecond \/ DeliverOpen \/ DeliverClose \/ DeliverTimer

SpecJoinTwice == InitJoinTwice /\ [][NextJoinTwice]_vars

-----------------------------------------------------------------------------
(* The event bus: callbacks are subscribed and unsubscribed while one channel
   connects, opens, receives frames and closes *)

\* the callbacks a caller subscribes: two that return, one that throws
BusHandlers == {"h1", "h2", "hx"}

\* the events the caller subscribes them to
BusEvents == {"message", "connect", "disconnect", "error"}

\* the frames the server, or anything else on the wire, can deliver
InboundFrames ==
    { RawFrame("invalid", Undefined, Undefined, Undefined),
      RawFrame("null", Undefined, Undefined, Undefined),
      RawFrame("object", "message", "u2", "hi"),
      RawFrame("object", "message", Undefined, Undefined),
      RawFrame("object", "user_joined", "u2", Undefined),
      RawFrame("object", "user_left", "u2", Undefined),
      RawFrame("object", "error", Undefined, "boom"),
      RawFrame("object", "ping", Undefined, Undefined),
      RawFrame("object", Undefined, Undefined, Undefined) }

NoHandlers ==
    [message |-> <<>>, userJoined |-> <<>>, userLeft |-> <<>>, connect |-> <<>>,
     disconnect |-> <<>>, error |-> <<>>]

\* the number of callbacks subscribed, all events together
Subscribed(hs) ==
    Len(hs.message) + Len(hs.userJoined) + Len(hs.userLeft) + Len(hs.connect)
        + Len(hs.disconnect) + Len(hs.error)

\* the module as loaded: no callback subscribed yet
InitBus ==
    /\ sockets = <<>>
    /\ socket = 0
    /\ connected = FALSE
    /\ userInfo = NoUser
    /\ reconnectTimer = 0
    /\ customServerUrl = <<>>
    /\ location = [protocol |-> "https:", host |-> HostDiscord]
    /\ viteWsHost = <<>>
    /\ participants = JsArray(<<>>)
    /\ published = <<>>
    /\ transmitted = <<>>
    /\ lastOp = Op("init", 0, "none")
    /\ lastCall = "none"
    /\ epoch = 0
    /\ handlers = NoHandlers
    /\ invoked = <<>>
    /\ raised = FALSE
    /\ received = NoFrame
    /\ delivered = NoResponse
    /\ InitRelay
    /\ refused = {}
    /\ status = "connecting"

\* on(event, callback), called by the application
On(event, callback) ==
    /\ Subscribed(handlers) < MaxHandlers
    /\ Install(on(M, event, callback))
    /\ lastOp' = Op("on", 0, "none")
    /\ received' = NoFrame
    /\ delivered' = NoResponse
    /\ UNCHANGED <<envVars, relayVars, refused, participants, lastCall, epoch>>
    /\ status' = StatusAfter(status, invoked')

\* off(event, callback), called by the application
Off(event, callback) ==
    /\ Install(off(M, event, callback))
    /\ lastOp' = Op("off", 0, Bool(handlers' # handlers))
    /\ received' = NoFrame
    /\ delivered' = NoResponse
    /\ UNCHANGED <<envVars, relayVars, refused, participants, lastCall, epoch>>
    /\ status' = StatusAfter(status, invoked')

\* the first connect(user)
ConnectFirst ==
    /\ sockets = <<>>
    /\ \E u \in Users : Connect(u)

NextBus ==
    \/ \E event \in BusEvents, callback \in BusHandlers : On(event, callback)
    \/ \E event \in BusEvents, callback \in BusHandlers : Off(event, callback)
    \/ ConnectFirst
    \/ \E i \in Channels : SocketOpen(i)
    \/ \E i \in Channels, raw \in InboundFrames : SocketMessage(i, raw)
    \/ \E i \in Channels, failed \in BOOLEAN : SocketClosed(i, failed)

SpecBus == InitBus /\ [][NextBus]_vars

-----------------------------------------------------------------------------
(* The chat client as main.ts sets it up: its six handlers subscribed, one
   connect, then the frames the channel receives, the failures of the channel,
   the reconnections that follow and disconnect *)

\* connectWebSocket(), called when the page starts and by handleMessageSubmit
\* when isConnected() is false
ConnectWebSocket ==
    /\ ~connected
    /\ Len(sockets) < MaxSockets
    /\ \E u \in Users : Install(connect(M, u, [armedBy |-> 0, epoch |-> epoch]))
    /\ status' = "connecting"
    /\ lastOp' = Op("connect", 0, "none")
    /\ lastCall' = "connect"
    /\ received' = NoFrame
    /\ delivered' = NoResponse
    /\ UNCHANGED <<envVars, relayVars, refused, participants, epoch>>

NextFrames ==
    \/ ConnectWebSocket
    \/ \E i \in Channels : SocketOpen(i)
    \/ \E i \in Channels, raw \in InboundFrames : SocketMessage(i, raw)
    \/ \E i \in Channels, failed \in BOOLEAN : SocketClosed(i, failed)
    \/ \E t \in Channels : TimerFire(t)
    \/ Disconnect

SpecFrames == Init /\ [][NextFrames]_vars

-----------------------------------------------------------------------------
(* The chat form of main.ts: the page connects, the user submits messages, the
   channels open, fail and are replaced by reconnection *)

\* connectWebSocket() of initApp
ConnectAtStart ==
    /\ sockets = <<>>
    /\ ConnectWebSocket

\* handleMessageSubmit(message) with a chat text: when isConnected() is true
\* the text goes to sendMessage, whose result is not looked at, and is
\* displayed as the user's own message (ret "own"); otherwise a notice is
\* shown, the indicator is set to disconnected and connectWebSocket() sets it
\* to connecting and connects (ret "notice")
HandleMessageSubmit(message) ==
    /\ IF connected
       THEN /\ LET r == sendMessage(M, message)
               IN  /\ Install(r.m)
                   /\ refused' = IF r.ret THEN refused ELSE refused \cup {message}
            /\ lastOp' = Op("handleMessageSubmit", 0, "own")
            /\ UNCHANGED <<status, lastCall>>
       ELSE /\ Len(sockets) < MaxSockets
            /\ \E u \in Users : Install(connect(M, u, [armedBy |-> 0, epoch |-> epoch]))
            /\ lastOp' = Op("handleMessageSubmit", 0, "notice")
            /\ status' = "connecting"
            /\ lastCall' = "connect"
            /\ UNCHANGED refused
    /\ received' = NoFrame
    /\ delivered' = NoResponse
    /\ UNCHANGED <<envVars, relayVars, participants, epoch>>

NextChat ==
    \/ ConnectAtStart
    \/ \E text \in Texts : HandleMessageSubmit(text)
    \/ \E i \in Channels : SocketOpen(i)
    \/ \E i \in Channels, failed \in BOOLEAN : SocketClosed(i, failed)
    \/ \E t \in Channels : TimerFire(t)

SpecChat == Init /\ [][NextChat]_vars

-----------------------------------------------------------------------------
(* The participants of the activity: the snapshot fetched at start-up and the
   updates the Discord SDK delivers *)

ParticipantIds == {"a", "b"}

\* the participant lists of at most n entries
Lists(n) == UNION {[1..k -> ParticipantIds] : k \in 0..n}

\* what getInstanceConnectedParticipants resolves to, or the SDK event carries:
\* a bare list, an object with the list under users, under participants, under
\* both or under a field the code does not know, an empty object, values that
\* are neither array nor object, and objects whose users or participants is not
\* a list: a number, a string, null, an object
Responses ==
    {Bare(JsArray(s)) : s \in Lists(MaxParticipants)}
        \cup {JsObject(JsArray(s), JsAbsent, JsAbsent) : s \in Lists(MaxParticipants)}
        \cup {JsObject(JsAbsent, JsArray(s), JsAbsent) : s \in Lists(MaxParticipants)}
        \cup {JsObject(JsAbsent, JsAbsent, JsArray(s)) : s \in Lists(MaxParticipants)}
        \cup {JsObject(JsArray(<<"a">>), JsArray(<<"b">>), JsAbsent),
              JsObject(JsAbsent, JsAbsent, JsAbsent)}
        \cup {Bare(JsOther(t)) : t \in {"null", "undefined", "number", "string"}}
        \cup {JsObject(JsOther("number"), JsArray(<<"a">>), JsAbsent),
              JsObject(JsOther("string"), JsAbsent, JsAbsent),
              JsObject(JsOther("null"), JsArray(<<"b">>), JsAbsent),
              JsObject(JsAbsent, JsOther("object"), JsAbsent)}

\* getInstanceConnectedParticipants rejects
Rejected == Bare(JsOther("rejected"))

\* renderParticipants(ps) raises: it draws a list, assigns nothing and raises
\* nothing; handed a value that is not a list it may raise or not (renderThrows)
RenderRaises(ps, renderThrows) == renderThrows /\ ~IsArray(ps)

\* participants without the probe of response.participants
fetchParticipants_UsersOnly(response, renderThrows) ==
    LET assigned ==
            IF IsArray(response) THEN Value(response)
            ELSE IF Truthy(response) /\ TypeofObject(response)
            THEN IF Truthy(response.users) THEN response.users
                 ELSE JsArray(<<>>)
            ELSE JsArray(<<>>)
    IN  IF response = Rejected \/ RenderRaises(assigned, renderThrows)
        THEN JsArray(<<>>)
        ELSE assigned

\* fetchParticipants(): the value of participants once the promise has settled;
\* a rejected command, and a renderParticipants that raises, end in the catch
\* block, which assigns the empty list
fetchParticipants(response, renderThrows) ==
    LET assigned ==
            IF IsArray(response) THEN Value(response)
            ELSE IF Truthy(response) /\ TypeofObject(response)
            THEN IF Truthy(response.users) THEN response.users
                 ELSE IF Truthy(response.participants) THEN response.participants
                 ELSE JsArray(<<>>)
            ELSE JsArray(<<>>)
    IN  IF response = Rejected \/ RenderRaises(assigned, renderThrows)
        THEN JsArray(<<>>)
        ELSE assigned

\* updateParticipants that resets the list on a shape it does not know
updateParticipants_Resets(current, newParticipants) ==
    fetchParticipants(newParticipants, FALSE)

\* updateParticipants(newParticipants): the value of participants after it
updateParticipants(current, newParticipants) ==
    IF IsArray(newParticipants) THEN Value(newParticipants)
    ELSE IF Truthy(newParticipants) /\ TypeofObject(newParticipants)
    THEN IF Truthy(newParticipants.users) THEN newParticipants.users
         ELSE IF Truthy(newParticipants.participants) THEN newParticipants.participants
         ELSE current
    ELSE current

\* updateParticipants(newParticipants) gets as far as renderParticipants
Renders(newParticipants) ==
    \/ IsArray(newParticipants)
    \/ /\ Truthy(newParticipants) /\ TypeofObject(newParticipants)
       /\ Truthy(newParticipants.users) \/ Truthy(newParticipants.participants)

InitPresence ==
    /\ sockets = <<>>
    /\ socket = 0
    /\ connected = FALSE
    /\ userInfo = NoUser
    /\ reconnectTimer = 0
    /\ customServerUrl = <<>>
    /\ location = [protocol |-> "https:", host |-> HostDiscord]
    /\ viteWsHost = <<>>
    /\ participants = JsArray(<<>>)
    /\ published = <<>>
    /\ transmitted = <<>>
    /\ lastOp = Op("init", 0, "none")
    /\ lastCall = "none"
    /\ epoch = 0
    /\ handlers = NoHandlers
    /\ invoked = <<>>
    /\ raised = FALSE
    /\ received = NoFrame
    /\ delivered = NoResponse
    /\ InitRelay
    /\ refused = {}
    /\ status = "connecting"

\* what the participant code leaves alone
connectionVars ==
    <<sockets, socket, connected, userInfo, reconnectTimer, customServerUrl, envVars,
      published, transmitted, lastCall, epoch, handlers, invoked, received, relayVars,
      refused, status>>

\* fetchParticipants() has settled with this response
FetchParticipants(resp, renderThrows) ==
    /\ participants' = fetchParticipants(resp, renderThrows)
    /\ delivered' = resp
    /\ raised' = FALSE
    /\ lastOp' = Op("fetchParticipants", 0, "none")
    /\ UNCHANGED connectionVars

\* the SDK delivers ACTIVITY_INSTANCE_PARTICIPANTS_UPDATE
UpdateParticipants(newParticipants, renderThrows) ==
    /\ participants' = updateParticipants(participants, newParticipants)
    /\ delivered' = newParticipants
    /\ raised' = (Renders(newParticipants) /\ RenderRaises(participants', renderThrows))
    /\ lastOp' = Op("updateParticipants", 0, "none")
    /\ UNCHANGED connectionVars

NextPresence ==
    \/ \E resp \in Responses \cup {Rejected}, renderThrows \in BOOLEAN :
          FetchParticipants(resp, renderThrows)
    \/ \E newParticipants \in Responses, renderThrows \in BOOLEAN :
          UpdateParticipants(newParticipants, renderThrows)

SpecPresence == InitPresence /\ [][NextPresence]_vars

-----------------------------------------------------------------------------
(* The endpoint resolved on every page: any page scheme, a Discord host or a
   local one, a host configured for local development or none, and one use of
   the join dialog with any override *)

Locations == [protocol : {"http:", "https:"}, host : {HostLocal, HostDiscord}]

ViteHosts == {<<>>, HostVite}

\* the override the join dialog hands over: none, or a URL with the http scheme,
\* with the https scheme or with no scheme, ending in /ws, in / or in neither,
\* or a host without scheme whose name begins with https
Overrides == {<<>>, UrlHttp, UrlHttps, UrlHttpsWs, UrlBare, UrlBareSlash, UrlHttpsHost}

InitUrl ==
    /\ sockets = <<>>
    /\ socket = 0
    /\ connected = FALSE
    /\ userInfo = NoUser
    /\ reconnectTimer = 0
    /\ customServerUrl = <<>>
    /\ location \in Locations
    /\ viteWsHost \in ViteHosts
    /\ participants = JsArray(<<>>)
    /\ published = <<>>
    /\ transmitted = <<>>
    /\ lastOp = Op("init", 0, "none")
    /\ lastCall = "none"
    /\ epoch = 0
    /\ handlers = MainHandlers
    /\ invoked = <<>>
    /\ raised = FALSE
    /\ received = NoFrame
    /\ delivered = NoResponse
    /\ InitRelay
    /\ refused = {}
    /\ status = "connecting"

\* the one use of the join dialog
JoinOnce ==
    /\ epoch = 0
    /\ \E serverUrl \in Overrides :
          JoinInstance("inst-2", "act-9", "u1", "Alice", serverUrl)

\* the join dialog used a second time, for another instance, with or without
\* an override
JoinAgain ==
    /\ epoch = 1
    /\ \E serverUrl \in {<<>>, UrlHttps} :
          JoinInstance("inst-3", Undefined, "u1", "Alice", serverUrl)

NextUrl ==
    \/ \E u \in Users : Connect(u)
    \/ JoinOnce
    \/ JoinAgain
    \/ \E i \in Channels : SocketOpen(i)

SpecUrl == InitUrl /\ [][NextUrl]_vars

-----------------------------------------------------------------------------
(* The health probe of the relay: the activity client reads the status of the
   Ably connection every 5 seconds and gives up on the relay after too many
   checks *)

\* `connectionAttempts > 3`
FallbackThreshold == 3

\* the statuses an Ably connection reports
AblyStates == {"initialized", "connecting", "connected", "disconnected", "failed"}

\* the object assigned to window.__mockAblyFallback: a connection that reports
\* connected, channels whose subscribe and publish resolve to true, a close
\* that does nothing
mockAbly == "mockAbly"

\* the probe: [connectionAttempts, checkTimer, mockAblyFallback]
P ==
    [connectionAttempts |-> connectionAttempts, checkTimer |-> checkTimer,
     mockAblyFallback |-> mockAblyFallback]

\* checkConnectionState that gives up as soon as the count reaches the threshold
checkConnectionState_AtThreshold(p, state) ==
    LET n == p.connectionAttempts + 1
    IN  IF state = "connected" THEN [p EXCEPT !.connectionAttempts = n]
        ELSE IF n >= FallbackThreshold
        THEN [p EXCEPT !.connectionAttempts = n, !.mockAblyFallback = mockAbly]
        ELSE [p EXCEPT !.connectionAttempts = n, !.checkTimer = TRUE]

\* checkConnectionState that keeps checking after it installed the mock
checkConnectionState_KeepsChecking(p, state) ==
    LET n == p.connectionAttempts + 1
    IN  IF state = "connected" THEN [p EXCEPT !.connectionAttempts = n]
        ELSE IF n > FallbackThreshold
        THEN [p EXCEPT !.connectionAttempts = n, !.mockAblyFallback = mockAbly,
                       !.checkTimer = TRUE]
        ELSE [p EXCEPT !.connectionAttempts = n, !.checkTimer = TRUE]

\* checkConnectionState that stops after the last check without installing the mock
checkConnectionState_NeverInstalls(p, state) ==
    LET n == p.connectionAttempts + 1
    IN  IF state = "connected" THEN [p EXCEPT !.connectionAttempts = n]
        ELSE IF n > FallbackThreshold
        THEN [p EXCEPT !.connectionAttempts = n]
        ELSE [p EXCEPT !.connectionAttempts = n, !.checkTimer = TRUE]

\* checkConnectionState that goes on after it has read a connected status
checkConnectionState_IgnoresConnected(p, state) ==
    LET n == p.connectionAttempts + 1
    IN  IF n > FallbackThreshold
        THEN IF state = "connected" THEN [p EXCEPT !.connectionAttempts = n]
             ELSE [p EXCEPT !.connectionAttempts = n, !.mockAblyFallback = mockAbly]
        ELSE [p EXCEPT !.connectionAttempts = n, !.checkTimer = TRUE]

\* checkConnectionState(), run by a timer that is no longer pending: `state` is
\* what ably.connection.state reads
checkConnectionState(p, state) ==
    LET n == p.connectionAttempts + 1
    IN  IF state = "connected" THEN [p EXCEPT !.connectionAttempts = n]
        ELSE IF n > FallbackThreshold
        THEN [p EXCEPT !.connectionAttempts = n, !.mockAblyFallback = mockAbly]
        ELSE [p EXCEPT !.connectionAttempts = n, !.checkTimer = TRUE]

InitProbe ==
    /\ sockets = <<>>
    /\ socket = 0
    /\ connected = FALSE
    /\ userInfo = NoUser
    /\ reconnectTimer = 0
    /\ customServerUrl = <<>>
    /\ location = [protocol |-> "https:", host |-> HostDiscord]
    /\ viteWsHost = <<>>
    /\ participants = JsArray(<<>>)
    /\ published = <<>>
    /\ transmitted = <<>>
    /\ lastOp = Op("init", 0, "none")
    /\ lastCall = "none"
    /\ epoch = 0
    /\ handlers = NoHandlers
    /\ invoked = <<>>
    /\ raised = FALSE
    /\ received = NoFrame
    /\ delivered = NoResponse
    /\ InitRelay
    /\ refused = {}
    /\ status = "connecting"

\* what the probe leaves alone
clientVars ==
    <<sockets, socket, connected, userInfo, reconnectTimer, customServerUrl, envVars,
      participants, published, transmitted, lastCall, epoch, handlers, invoked,
      raised, received, delivered, refused, status>>

\* the Ably connection changes its status
AblyStateChange(state) ==
    /\ state # ablyState
    /\ ablyState' = state
    /\ lastOp' = Op("ably", 0, "none")
    /\ UNCHANGED <<connectionAttempts, checkTimer, mockAblyFallback, observed>>
    /\ UNCHANGED clientVars

\* the timer of the health probe fires
CheckTimerFire ==
    /\ checkTimer
    /\ LET p == checkConnectionState([P EXCEPT !.checkTimer = FALSE], ablyState)
       IN  /\ connectionAttempts' = p.connectionAttempts
           /\ checkTimer' = p.checkTimer
           /\ mockAblyFallback' = p.mockAblyFallback
    /\ observed' = Append(observed, ablyState)
    /\ lastOp' = Op("checkConnectionState", 0, "none")
    /\ UNCHANGED ablyState
    /\ UNCHANGED clientVars

NextProbe ==
    \/ \E state \in AblyStates : AblyStateChange(state)
    \/ CheckTimerFire

SpecProbe == InitProbe /\ [][NextProbe]_vars

\* window.setTimeout runs checkConnectionState once its delay has passed
SpecProbeFair == SpecProbe /\ WF_vars(CheckTimerFire)

-----------------------------------------------------------------------------
(* Properties *)

Live == {i \in Channels : sockets[i].state \in {"CONNECTING", "OPEN"}}

PendingTimers == {i \in Channels : sockets[i].timer = "pending"}

\* nothing is left to deliver: no channel is connecting or closing, no timer is pending
Quiescent ==
    /\ \A i \in Channels : sockets[i].state \in {"OPEN", "CLOSED"}
    /\ PendingTimers = {}

\* C1: at most one channel created by the connection manager is connecting or
\* open at any time.
C1_AtMostOneLiveChannel == Cardinality(Live) <= 1

\* C2: after disconnect(), as long as the caller makes no further connect or
\* joinInstance call, no new channel is created (by a reconnection timer or
\* otherwise).
C2_NoChannelAfterDisconnect ==
    [][(lastCall = "disconnect" /\ lastCall' = "disconnect")
          => Len(sockets') = Len(sockets)]_vars

\* C3: after two joinInstance calls back to back, once nothing is left to
\* deliver, exactly one channel is active, it was opened at the URL derived from
\* the second call's override, and the one join frame it carried has the second
\* call's identity.
C3_JoinTwiceOneChannel ==
    (epoch = 2 /\ Quiescent) =>
        /\ Cardinality(Live) = 1
        /\ \A i \in Live :
              /\ sockets[i].url = getWebSocketUrl(customServerUrl, location, viteWsHost)
              /\ sockets[i].joined = <<Frame("join", JoinData(userInfo))>>
              /\ userInfo.activityId = "act-9"

\* C4: a channel created by a reconnection timer belongs to the same joinInstance
\* call as the channel whose close armed that timer: no timer of a previously
\* joined instance connects for the newly joined one.
C4_NoStaleTimerConnect ==
    \A i \in Channels :
        sockets[i].armedBy # 0 => sockets[sockets[i].armedBy].epoch = sockets[i].epoch

C6_DisconnectCancelsTimer ==
    [][lastOp'.op = "disconnect"
          => \A t \in PendingTimers : sockets'[t].timer = "cancelled"]_vars

\* C7: at most one reconnection timer is pending, counting every timer armed and
\* neither fired nor cancelled.
C7_AtMostOnePendingTimer == Cardinality(PendingTimers) <= 1

\* C8: when connect creates a new channel, every channel created earlier is
\* closed or closing.
C8_ConnectTearsDown ==
    [][Len(sockets') > Len(sockets)
          => \A i \in Channels : sockets'[i].state \in {"CLOSING", "CLOSED"}]_vars

\* C9: when a channel opens, the join frame with the stored identity is sent on
\* that channel and the connect event is published; the connect event is never
\* published without that join frame.
C9_JoinSentOnOpen ==
    [][\A i \in Channels :
          (lastOp'.op = "onopen" /\ lastOp'.sock = i)
              => /\ transmitted' = <<[sock |-> i, frame |-> Frame("join", JoinData(userInfo))]>>
                 /\ published' = <<Event("connect", <<>>)>>]_vars

\* the connection is not in Connected: isConnected() is false, or no open channel is held
NotConnected == ~connected \/ socket = 0 \/ sockets[socket].state # "OPEN"

\* C10: send, reached through sendMessage, while the connection is not in
\* Connected returns false, transmits no frame, and leaves the connection state, the stored
\* identity, the reconnection timer and the participant set unchanged.
C10_SendRefused ==
    [][(lastOp'.op = "sendMessage" /\ NotConnected)
          => /\ lastOp'.ret = "false"
             /\ transmitted' = <<>>
             /\ UNCHANGED <<sockets, socket, connected, userInfo, reconnectTimer,
                            customServerUrl, participants>>]_vars

\* sendMessage has been refused on a channel that is still connecting
C10_Witness ==
    /\ lastOp = Op("sendMessage", 0, "false")
    /\ ~connected
    /\ socket # 0
    /\ sockets[socket].state = "CONNECTING"
    /\ transmitted = <<>>

\* the connection is in Disconnected: no channel is held, isConnected() is false
\* and no reconnection timer is pending
Disconnected == socket = 0 /\ ~connected /\ PendingTimers = {}

\* C11: disconnect() called while the connection is already Disconnected leaves
\* the connection state, the channels, the timers and the stored values
\* unchanged, publishes no event, invokes no handler and transmits nothing.
C11_DisconnectIdempotent ==
    [][(lastOp'.op = "disconnect" /\ Disconnected)
          => /\ published' = <<>>
             /\ invoked' = <<>>
             /\ transmitted' = <<>>
             /\ ~raised'
             /\ UNCHANGED <<sockets, socket, connected, userInfo, reconnectTimer,
                            customServerUrl, handlers, participants>>]_vars

\* disconnect() has been called before any channel was created: nothing was held,
\* nothing was pending, and nothing has changed
C11_Witness ==
    /\ lastOp = Op("disconnect", 0, "none")
    /\ lastCall = "disconnect"
    /\ Disconnected
    /\ sockets = <<>>
    /\ userInfo = NoUser

\* the connection is in Connected on channel i: the flag is set and i is the
\* channel held, open
ConnectedOn(i) == connected /\ socket = i /\ sockets[i].state = "OPEN"

\* what a callback leaves alone when it changes nothing of the connection
ConnectionUnchanged ==
    UNCHANGED <<sockets, socket, connected, userInfo, reconnectTimer, customServerUrl,
                handlers, participants>>

\* C12: an inbound frame whose text is not JSON publishes no event, invokes no
\* handler, lets no exception leave onmessage, and leaves the connection as it
\* was: Connected, the channel open, no reconnection timer armed.
C12_UnparseableIgnored ==
    [][\A i \in Channels :
          (lastOp'.op = "onmessage" /\ lastOp'.sock = i /\ received'.json = "invalid"
              /\ ConnectedOn(i))
              => /\ published' = <<>>
                 /\ invoked' = <<>>
                 /\ transmitted' = <<>>
                 /\ ~raised'
                 /\ ConnectedOn(i)'
                 /\ PendingTimers' = {}
                 /\ ConnectionUnchanged]_vars

\* a frame that is not JSON has arrived on the open channel while handlers were
\* subscribed to message and to error
C12_Witness ==
    /\ lastOp = Op("onmessage", 1, "none")
    /\ received.json = "invalid"
    /\ ConnectedOn(1)
    /\ handlers.message # <<>>
    /\ handlers.error # <<>>
    /\ invoked = <<>>

\* the frame types onmessage dispatches
KnownTypes == {"message", "user_joined", "user_left", "error"}

\* C13: an inbound frame that parses and whose type is none of message,
\* user_joined, user_left and error invokes no handler, publishes nothing, lets
\* no exception leave onmessage and leaves the connection state unchanged.
C13_UnknownTypeIgnored ==
    [][(lastOp'.op = "onmessage" /\ received'.json = "object"
          /\ received'.type \notin KnownTypes)
          => /\ published' = <<>>
             /\ invoked' = <<>>
             /\ transmitted' = <<>>
             /\ ~raised'
             /\ ConnectionUnchanged]_vars

\* a frame of type ping has arrived on the open channel while handlers were
\* subscribed to message and to error
C13_Witness ==
    /\ lastOp = Op("onmessage", 1, "none")
    /\ received.json = "object"
    /\ received.type = "ping"
    /\ ConnectedOn(1)
    /\ handlers.message # <<>>
    /\ handlers.error # <<>>
    /\ invoked = <<>>

\* the calls that publishing the events evs makes when every handler subscribed
\* to an event's kind is called, in subscription order
RECURSIVE AllCalls(_, _)
AllCalls(hs, evs) ==
    IF evs = <<>> THEN <<>>
    ELSE [k \in 1..Len(hs[Head(evs).kind]) |-> Call(hs[Head(evs).kind][k], Head(evs))]
             \o AllCalls(hs, Tail(evs))

\* C14: the events a step publishes invoke every handler subscribed to their
\* kind, in subscription order, and no handler subscribed only to another kind.
C14_AllHandlersInOrder == invoked = AllCalls(handlers, published)

Range(f) == {f[k] : k \in DOMAIN f}

\* C15: when a handler raises while an event is published, every handler
\* subscribed after it to the same kind is still invoked for that event.
C15_RaisingHandlerIsolated ==
    \A n \in DOMAIN published :
        LET ev == published[n]
            hs == handlers[ev.kind]
        IN  \A k \in DOMAIN hs :
                Raises(hs[k], ev.arg)
                    => \A j \in (k + 1)..Len(hs) : Call(hs[j], ev) \in Range(invoked)

\* C16: off with a callback that is not subscribed to the event leaves every
\* handler list unchanged; off with a subscribed callback removes it from the
\* list of that event only and keeps the others of that list in their order; no
\* handler is invoked that is not in the list of the event published.
C16_OffRemovesFromOneList ==
    [][/\ \A event \in BusEvents, callback \in BusHandlers :
            Off(event, callback)
                => /\ \A e \in EventNames \ {event} : handlers'[e] = handlers[e]
                   /\ handlers'[event] =
                          SelectSeq(handlers[event], LAMBDA handler : handler # callback)
                   /\ callback \notin Range(handlers[event]) => handlers' = handlers
                   /\ callback \notin Range(handlers'[event])
       /\ \A n \in DOMAIN invoked' :
            invoked'[n].handler \in Range(handlers'[invoked'[n].kind])]_vars

\* off has removed a callback and left h1 before h2 on message, nothing else
\* being subscribed: the callback removed was one of the three subscribed
C16_Witness ==
    /\ lastOp = Op("off", 0, "true")
    /\ handlers.message = <<"h1", "h2">>
    /\ Subscribed(handlers) = Len(handlers.message)

\* C17: a snapshot given as a bare list, as an object with the list under users
\* or as an object with the list under participants leaves the same participants,
\* the list given; an object with none of the fields the code knows leaves the
\* empty list; fetchParticipants raises nothing.
C17_SnapshotShapes ==
    lastOp.op = "fetchParticipants"
        => /\ ~raised
           /\ \A s \in Lists(MaxParticipants) :
                /\ delivered \in {Bare(JsArray(s)), JsObject(JsArray(s), JsAbsent, JsAbsent),
                                 JsObject(JsAbsent, JsArray(s), JsAbsent)}
                      => participants = JsArray(s)
                /\ delivered = JsObject(JsAbsent, JsAbsent, JsArray(s))
                      => participants = JsArray(<<>>)
           /\ delivered = JsObject(JsAbsent, JsAbsent, JsAbsent)
                 => participants = JsArray(<<>>)

\* a snapshot with a and b under participants has been fetched
C17_Witness ==
    /\ lastOp.op = "fetchParticipants"
    /\ delivered = JsObject(JsAbsent, JsArray(<<"a", "b">>), JsAbsent)
    /\ participants = JsArray(<<"a", "b">>)

\* an update of a shape updateParticipants does not know: an object with neither
\* users nor participants, or a value that is neither an array nor an object
Unrecognized(u) ==
    \/ u.t = "object" /\ u.users = JsAbsent /\ u.participants = JsAbsent
    \/ u.t \notin {"array", "object"}

\* C18: an update of unrecognized shape leaves participants exactly as it was,
\* and so never empties it.
C18_UnrecognizedUpdateKeepsSet ==
    [][(lastOp'.op = "updateParticipants" /\ Unrecognized(delivered'))
          => participants' = participants /\ ~raised']_vars

\* an update with the list under an unknown field has arrived while a and b
\* were the participants, and they still are
C18_Witness ==
    /\ lastOp.op = "updateParticipants"
    /\ delivered = JsObject(JsAbsent, JsAbsent, JsArray(<<"b">>))
    /\ participants = JsArray(<<"a", "b">>)

\* C19: whenever an override URL is installed, the URL of the channel held is
\* the one resolved from the override alone: the same on every page, Discord
\* host or not, and with or without a host configured for local development.
C19_OverrideAlone ==
    (customServerUrl # <<>> /\ socket # 0)
        => \A loc \in Locations, vite \in ViteHosts :
              sockets[socket].url = getWebSocketUrl(customServerUrl, loc, vite)

\* on a secure Discord page with a local development host configured, the
\* override http://custom.example.com has given ws://custom.example.com/ws
C19_Witness ==
    /\ customServerUrl = UrlHttp
    /\ location = [protocol |-> "https:", host |-> HostDiscord]
    /\ viteWsHost = HostVite
    /\ socket # 0
    /\ sockets[socket].url = WsCustom

\* C20: whatever the page scheme, the host and the override (absent, with the
\* http scheme, with the https scheme, without scheme), the URL resolved has the
\* wss scheme when the page is secure, and its path ends in /ws.
C20_SecureSchemeAndSuffix ==
    socket # 0
        => /\ location.protocol = "https:"
                 => StartsWith(sockets[socket].url, S_wssColon \o S_slashSlash)
           /\ EndsWith(sockets[socket].url, S_slashWs)

\* the health checks made so far that read a status other than connected
NotConnectedChecks == {k \in DOMAIN observed : observed[k] # "connected"}

\* C21: the health probe installs the substitute relay only at a check that
\* finds the relay not connected after more than 3 checks have been made: the
\* substitute is installed exactly when four checks have run and none of them
\* read a connected status, so never at checks 1 to 3
C21_InstalledAtFourthCheck ==
    /\ Len(observed) = connectionAttempts
    /\ mockAblyFallback = mockAbly
           <=> (Len(observed) = FallbackThreshold + 1
                   /\ NotConnectedChecks = DOMAIN observed)
    /\ mockAblyFallback # mockAbly => mockAblyFallback = Undefined

C21_Witness ==
    /\ mockAblyFallback = mockAbly
    /\ lastOp.op = "checkConnectionState"
    /\ observed = <<"connecting", "disconnected", "connecting", "failed">>

\* C22: the relay is substituted at most once per process: once the substitute
\* is installed, no step removes or replaces it, no health check runs and none
\* is scheduled, whatever status the real relay reaches afterwards
C22_SubstitutedOnce ==
    [][mockAblyFallback = mockAbly
           => /\ ~checkTimer
              /\ UNCHANGED <<mockAblyFallback, connectionAttempts, checkTimer, observed>>]_vars

C22_Witness ==
    /\ mockAblyFallback = mockAbly
    /\ ablyState = "connected"
    /\ lastOp.op = "ably"

\* C23: after disconnect() returns and until the next connect or joinInstance,
\* the stored identity is empty: getConnectionInfo reports no userInfo
C23_DisconnectClearsIdentity ==
    lastCall = "disconnect" => getConnectionInfo(M).userInfo = NoUser

\* C24: immediately after every connect call and every disconnect call (made by
\* the caller, by joinInstance or by a reconnection timer), no reconnection
\* timer armed before that call is still pending
C24_NoTimerSurvivesCall ==
    [][lastOp'.op \in {"connect", "disconnect", "joinInstance", "timer"}
          => PendingTimers' = {}]_vars

C27_EventsNeedRequiredFields ==
    [][\A k \in DOMAIN published' :
          (lastOp'.op = "onmessage"
              /\ published'[k].kind \in {"message", "userJoined", "userLeft"})
              => /\ received'.userId # Undefined
                 /\ published'[k].kind = "message" => received'.message # Undefined]_vars

\* C28: a message refused by send because the connection was not Connected is
\* never transmitted later: a message frame leaves only in the step of a
\* sendMessage call that found the connection Connected and returned true, and
\* the only other frame ever sent, also after a reconnection, is the join frame
\* with the stored identity that onopen sends
C28_RefusedNeverSentLater ==
    [][/\ \A k \in DOMAIN transmitted' :
            \/ /\ lastOp'.op = "onopen"
               /\ transmitted'[k].frame = Frame("join", JoinData(userInfo))
               /\ Len(transmitted') = 1
            \/ /\ lastOp' = Op("sendMessage", 0, "true")
               /\ ~NotConnected
               /\ transmitted'[k].sock = socket
               /\ transmitted'[k].frame.type = "message"
               /\ Len(transmitted') = 1
               /\ refused' = refused
       /\ lastOp' = Op("sendMessage", 0, "false")
            => /\ NotConnected
               /\ transmitted' = <<>>
               /\ refused' # {}]_vars

\* a message was refused, the channel failed, and the channel made by the
\* reconnection timer has opened and carried the join frame alone
C28_Witness ==
    /\ refused = {"hello"}
    /\ Len(sockets) = 2
    /\ sockets[2].armedBy = 1
    /\ lastOp = Op("onopen", 2, "none")
    /\ transmitted = <<[sock |-> 2, frame |-> Frame("join", JoinData(userInfo))]>>

\* C29: for a snapshot or update that is an object, the participant list is the
\* first of the fields users, participants that is present and whose value is a
\* sequence, a present field that is not a sequence being skipped; so the
\* participant set is a sequence in every reachable state
C29_FirstSequenceField ==
    /\ IsArray(participants)
    /\ (lastOp.op \in {"fetchParticipants", "updateParticipants"} /\ delivered.t = "object")
          => /\ IsArray(delivered.users) => participants = delivered.users
             /\ (~IsArray(delivered.users) /\ IsArray(delivered.participants))
                    => participants = delivered.participants

\* C30: after any snapshot or incremental update, the participant set holds
\* each participant identifier at most once, also when the payload lists an
\* identifier several times
C30_NoDuplicateParticipants ==
    IsArray(participants)
        => \A j, k \in DOMAIN participants.v :
              participants.v[j] = participants.v[k] => j = k

\* C31: an override URL is normalized to the secure channel scheme exactly when
\* it declares the https scheme and to the insecure one otherwise, its http or
\* https prefix is removed, and /ws is appended (ws after a final slash) unless
\* the override already ends in /ws, which then keeps its host and path
C31_OverrideNormalized ==
    (customServerUrl # <<>> /\ socket # 0)
        => LET scheme == IF StartsWith(customServerUrl, S_httpsScheme)
                         THEN S_wssColon ELSE S_wsColon
               rest == StripHttpScheme(customServerUrl)
               path == IF EndsWith(rest, S_slashWs) THEN rest
                       ELSE IF EndsWith(rest, S_slash) THEN rest \o S_ws
                       ELSE rest \o S_slashWs
           IN  sockets[socket].url = scheme \o S_slashSlash \o path

\* C32: joinInstance called without an override URL removes any override an
\* earlier joinInstance installed: the channel it opens is the one held and is
\* addressed by the automatic environment rules, not at the earlier override
C32_JoinWithoutOverrideResets ==
    [][JoinInstance("inst-3", Undefined, "u1", "Alice", <<>>)
          => /\ customServerUrl' = <<>>
             /\ Len(sockets') = Len(sockets) + 1
             /\ socket' = Len(sockets')
             /\ sockets'[socket'].url = getWebSocketUrl(<<>>, location, viteWsHost)
             /\ customServerUrl # <<>>
                    => sockets'[socket'].url # getWebSocketUrl(customServerUrl, location, viteWsHost)]_vars

\* after a first join, whose channel the second join has closed, a join
\* without override on the Discord page holds a channel at the proxy address
C32_Witness ==
    /\ epoch = 2
    /\ lastOp.op = "joinInstance"
    /\ customServerUrl = <<>>
    /\ Len(sockets) = 2
    /\ sockets[1].epoch = 1
    /\ sockets[1].state = "CLOSING"
    /\ socket = 2
    /\ location.host = HostDiscord
    /\ EndsWith(sockets[2].url, S_proxyWs)

\* C33: isConnected() is true exactly when the connection manager holds a
\* channel that is open: in every reachable state the connected flag is set if
\* and only if socket is non-null and its channel is open
C33_ConnectedIffOpen ==
    connected <=> (socket # 0 /\ sockets[socket].state = "OPEN")

\* C34: an open, close, error or message callback delivered by a channel that
\* is not the active one, replaced by a later connect or closed by disconnect,
\* leaves the channel handle, the connected flag and the reconnection timer
\* unchanged
C34_StaleCallbackIgnored ==
    [][\A i \in Channels :
          (lastOp'.op \in {"onopen", "onclose", "onmessage"} /\ lastOp'.sock = i
              /\ socket # i)
              => UNCHANGED <<socket, connected, reconnectTimer>>]_vars

C36_OwnMessageWasSent ==
    [][lastOp' = Op("handleMessageSubmit", 0, "own")
          => /\ Len(transmitted') = 1
             /\ transmitted'[1].sock = socket
             /\ transmitted'[1].frame.type = "message"]_vars

\* C37: the status indicator agrees with the connection state: whenever the
\* connection is Connected it shows connected, and a step sets it to
\* disconnected only for a close event or a failed connection, not for an error
\* frame the server sends on a live connection
C37_IndicatorAgrees ==
    [][/\ (connected' /\ socket' # 0 /\ sockets'[socket'].state = "OPEN")
            => status' = "connected"
       /\ (status' = "disconnected" /\ status # "disconnected")
            => lastOp'.op = "onclose"]_vars

\* the probe has ended: no check is pending, and the last check either read a
\* connected status or installed the substitute relay
ProbeEnded ==
    /\ ~checkTimer
    /\ observed # <<>>
    /\ \/ observed[Len(observed)] = "connected" /\ mockAblyFallback = Undefined
       \/ mockAblyFallback = mockAbly

\* C38: the relay health probe terminates: it makes at most 4 checks and, its
\* timer firing, eventually ends by reading a connected status or by
\* installing the substitute relay, after which no check is ever pending
C38_ProbeTerminates ==
    /\ [](connectionAttempts <= FallbackThreshold + 1)
    /\ <>[]ProbeEnded

\* the second check has read connected and ended the probe
C38_Witness ==
    /\ ProbeEnded
    /\ connectionAttempts = 2
    /\ observed[2] = "connected"
    /\ lastOp.op = "checkConnectionState"

\* C39: once a health check has observed the relay connected, the substitute
\* relay is never installed, whatever the status of the relay becomes later
C39_NoSubstituteAfterConnected ==
    (\E k \in DOMAIN observed : observed[k] = "connected")
        => mockAblyFallback = Undefined

\* the first check read connected; the relay has failed since
C39_Witness ==
    /\ observed = <<"connected">>
    /\ ablyState = "failed"
    /\ mockAblyFallback = Undefined

=============================================================================
